---- MODULE Spec2Model ----
(***************************************************************************)
(* Model of youtube_transcript_api: the ScrapeOps transport shim           *)
(* (scrapeops_client.py, ScrapeOpsClient) and the command line batch       *)
(* runner (_cli.py, YouTubeTranscriptCli).                                 *)
(*                                                                         *)
(* Strings that the code searches or concatenates (URLs, query parameters) *)
(* are sequences of one-character strings.  Text that the code encodes     *)
(* (str.encode('utf-8')) is a sequence of Unicode code points, and bytes   *)
(* are sequences of numbers 0..255.                                        *)
(***************************************************************************)
EXTENDS Integers, Sequences, FiniteSets, TLC

VARIABLES
    api_key,      \* ScrapeOpsClient.api_key
    timeout,      \* ScrapeOpsClient.timeout
    headers,      \* ScrapeOpsClient.headers: insertion-ordered dict, a sequence of <<name, value>>
    cookies,      \* ScrapeOpsClient.cookies: the jar, a sequence of <<name, value>>
    proxies,      \* ScrapeOpsClient.proxies
    last,         \* record of the latest get() call: its inputs, what was sent, what came back
    cli           \* state of one YouTubeTranscriptCli.run()

vars == <<api_key, timeout, headers, cookies, proxies, last, cli>>

-----------------------------------------------------------------------------
(* Bounds of the model *)

MaxVideoIds == 3       \* identifiers on a command line

(* Program constants *)

DefaultTimeout == 120
StatusOk == 200
StatusError == 500

-----------------------------------------------------------------------------
(* Generic helpers on sequences *)

Range(s) == {s[i] : i \in 1..Len(s)}

\* Python `needle in hay` for two strings
Contains(hay, needle) ==
    \E i \in 0..(Len(hay) - Len(needle)) :
        \A j \in 1..Len(needle) : hay[i + j] = needle[j]

StartsWith(s, prefix) ==
    /\ Len(prefix) <= Len(s)
    /\ \A j \in 1..Len(prefix) : s[j] = prefix[j]

\* first index of character c in s, 0 if absent
RECURSIVE IndexFrom(_, _, _)
IndexFrom(s, c, i) ==
    IF i > Len(s) THEN 0
    ELSE IF s[i] = c THEN i
    ELSE IndexFrom(s, c, i + 1)

RECURSIVE Concat(_)
Concat(ss) == IF ss = <<>> THEN <<>> ELSE Head(ss) \o Concat(Tail(ss))

\* Python sep.join(parts)
RECURSIVE Join(_, _)
Join(sep, parts) ==
    IF parts = <<>> THEN <<>>
    ELSE IF Len(parts) = 1 THEN parts[1]
    ELSE parts[1] \o sep \o Join(sep, Tail(parts))

\* insertion-ordered dict as a sequence of <<key, value>> with distinct keys
DictKeys(d) == {d[i][1] : i \in 1..Len(d)}

DictGet(d, k) == d[CHOOSE i \in 1..Len(d) : d[i][1] = k][2]

DictSet(d, k, v) ==
    IF k \in DictKeys(d)
    THEN [i \in 1..Len(d) |-> IF d[i][1] = k THEN <<k, v>> ELSE d[i]]
    ELSE Append(d, <<k, v>>)

None == "None"

-----------------------------------------------------------------------------
(* Text and bytes: str.encode('utf-8') *)

IsSurrogate(c) == c >= 55296 /\ c <= 57343

\* The UTF-8 bytes of one code point
Utf8Char(c) ==
    IF c < 128 THEN <<c>>
    ELSE IF c < 2048 THEN <<192 + (c \div 64), 128 + (c % 64)>>
    ELSE IF c < 65536
         THEN <<224 + (c \div 4096), 128 + ((c \div 64) % 64), 128 + (c % 64)>>
    ELSE <<240 + (c \div 262144), 128 + ((c \div 4096) % 64),
           128 + ((c \div 64) % 64), 128 + (c % 64)>>

\* str.encode('utf-8') raises UnicodeEncodeError on a lone surrogate
CanEncode(text) == \A i \in 1..Len(text) : ~IsSurrogate(text[i])

Utf8Encode(text) == Concat([i \in 1..Len(text) |-> Utf8Char(text[i])])

\* code points of the characters URLs are written with
Ord ==
    "&" :> 38 @@ "." :> 46 @@ "/" :> 47 @@ ":" :> 58 @@ "=" :> 61 @@ "?" :> 63 @@
    "a" :> 97 @@ "b" :> 98 @@ "c" :> 99 @@ "e" :> 101 @@ "h" :> 104 @@ "l" :> 108 @@
    "m" :> 109 @@ "n" :> 110 @@ "o" :> 111 @@ "p" :> 112 @@ "q" :> 113 @@ "s" :> 115 @@
    "t" :> 116 @@ "u" :> 117 @@ "v" :> 118 @@ "w" :> 119 @@ "x" :> 120 @@ "y" :> 121

TextOf(chars) == [i \in 1..Len(chars) |-> Ord[chars[i]]]

-----------------------------------------------------------------------------
(* Exceptions: a type and str(e), the text of the exception *)

Exc(type, text) == [type |-> type, text |-> text]

\* what requests.get raises when the outbound call fails (str(e) may be empty
\* or hold non-ASCII text)
NetworkErrors ==
    { Exc("ConnectionError",
          <<67,111,110,110,101,99,116,105,111,110,32,114,101,102,117,115,101,100>>),
      Exc("Timeout", <<>>) }

\* 'html' in <int or None>
NotIterable(t) ==
    IF t = "number"
    THEN Exc("TypeError",
             <<97,114,103,117,109,101,110,116,32,111,102,32,116,121,112,101,32,39,105,
               110,116,39,32,105,115,32,110,111,116,32,105,116,101,114,97,98,108,101>>)
    ELSE Exc("TypeError",
             <<97,114,103,117,109,101,110,116,32,111,102,32,116,121,112,101,32,39,78,
               111,110,101,84,121,112,101,39,32,105,115,32,110,111,116,32,105,116,101,
               114,97,98,108,101>>)

\* <str or list>['html']
BadIndex(t) ==
    IF t = "string"
    THEN Exc("TypeError",
             <<115,116,114,105,110,103,32,105,110,100,105,99,101,115,32,109,117,115,
               116,32,98,101,32,105,110,116,101,103,101,114,115,44,32,110,111,116,32,
               39,115,116,114,39>>)
    ELSE Exc("TypeError",
             <<108,105,115,116,32,105,110,100,105,99,101,115,32,109,117,115,116,32,98,
               101,32,105,110,116,101,103,101,114,115,32,111,114,32,115,108,105,99,101,
               115,44,32,110,111,116,32,115,116,114>>)

\* <None or int>.encode
NoEncode(t) ==
    IF t = "null"
    THEN Exc("AttributeError",
             <<39,78,111,110,101,84,121,112,101,39,32,111,98,106,101,99,116,32,104,97,
               115,32,110,111,32,97,116,116,114,105,98,117,116,101,32,39,101,110,99,
               111,100,101,39>>)
    ELSE Exc("AttributeError",
             <<39,105,110,116,39,32,111,98,106,101,99,116,32,104,97,115,32,110,111,32,
               97,116,116,114,105,98,117,116,101,32,39,101,110,99,111,100,101,39>>)

\* '\ud800'.encode('utf-8')
SurrogateError ==
    Exc("UnicodeEncodeError",
        <<39,117,116,102,45,56,39,32,99,111,100,101,99,32,99,97,110,39,116,32,101,110,
          99,111,100,101,32,99,104,97,114,97,99,116,101,114,32,39,92,117,100,56,48,48,
          39,32,105,110,32,112,111,115,105,116,105,111,110,32,48,58,32,115,117,114,114,
          111,103,97,116,101,115,32,110,111,116,32,97,108,108,111,119,101,100>>)

\* json.dumps of a dict holding a bytes value
NotSerializable ==
    Exc("TypeError",
        <<79,98,106,101,99,116,32,111,102,32,116,121,112,101,32,98,121,116,101,115,32,
          105,115,32,110,111,116,32,74,83,79,78,32,115,101,114,105,97,108,105,122,97,
          98,108,101>>)

MissingSchema(url) ==
    Exc("MissingSchema",
        <<73,110,118,97,108,105,100,32,85,82,76,32,39>> \o TextOf(url)
        \o <<39,58,32,78,111,32,115,99,104,101,109,101,32,115,117,112,112,108,105,101,
             100,46,32,80,101,114,104,97,112,115,32,121,111,117,32,109,101,97,110,116,
             32,104,116,116,112,115,58,47,47>>
        \o TextOf(url) \o <<63>>)

InvalidURL(url) ==
    Exc("InvalidURL",
        <<73,110,118,97,108,105,100,32,85,82,76,32,39>> \o TextOf(url)
        \o <<39,58,32,78,111,32,104,111,115,116,32,115,117,112,112,108,105,101,100>>)

-----------------------------------------------------------------------------
(* Inputs of get(): target URLs and query parameters *)

UrlWatch ==      \* https://www.youtube.com/watch?v=a
    <<"h","t","t","p","s",":","/","/","w","w","w",".","y","o","u","t","u","b","e",".",
      "c","o","m","/","w","a","t","c","h","?","v","=","a">>

UrlShort ==      \* https://youtu.be/a
    <<"h","t","t","p","s",":","/","/","y","o","u","t","u",".","b","e","/","a">>

UrlOther ==      \* https://example.com/a
    <<"h","t","t","p","s",":","/","/","e","x","a","m","p","l","e",".","c","o","m","/","a">>

UrlMention ==    \* https://example.com/?q=youtu.be
    <<"h","t","t","p","s",":","/","/","e","x","a","m","p","l","e",".","c","o","m","/",
      "?","q","=","y","o","u","t","u",".","b","e">>

UrlNoScheme ==   \* youtu.be/a
    <<"y","o","u","t","u",".","b","e","/","a">>

Urls == {UrlWatch, UrlShort, UrlOther, UrlMention, UrlNoScheme}

\* params: None, {} or a dict of query parameters
NoParams == [given |-> FALSE, items |-> <<>>]

DictParams(items) == [given |-> TRUE, items |-> items]

ParamsValues ==
    { NoParams,
      DictParams(<<>>),
      DictParams(<< <<<<"v">>, <<"b">>>>, <<<<"h","l">>, <<"e","n">>>> >>) }

\* `if params:` None and the empty dict are both false
Truthy(params) == params.given /\ params.items # <<>>

-----------------------------------------------------------------------------
(* The shim's header map and cookie jar, as their callers can set them *)

StrValue(v) == [type |-> "str", v |-> v]

BytesValue(v) == [type |-> "bytes", v |-> v]

UserAgentDefault ==
    StrValue("Mozilla/5.0 (Windows NT 10.0; Win64; x64) AppleWebKit/537.36 (KHTML, like Gecko) Chrome/91.0.4472.124 Safari/537.36")

AcceptLanguageDefault == StrValue("en-US,en;q=0.9")

HeaderNames == {"User-Agent", "Accept-Language", "X-Token"}

HeaderValues == {StrValue("curl/8"), StrValue("de"), BytesValue("tok")}

CookieNames == {"CONSENT"}

CookieValues == {"YES+1"}

\* json.dumps raises TypeError when a value is not a str
Serializable(d) == \A i \in 1..Len(d) : d[i][2].type = "str"

\* json.dumps(d) for a dict of strings: the text, as a sequence of tokens
JsonDumps(d) ==
    <<"{">>
    \o Join(<<", ">>,
            [i \in 1..Len(d) |-> <<"\"", d[i][1], "\"", ": ", "\"", d[i][2].v, "\"">>])
    \o <<"}">>

\* requests.utils.dict_from_cookiejar: cookie_dict[cookie.name] = cookie.value
RECURSIVE dict_from_cookiejar(_)
dict_from_cookiejar(jar) ==
    IF jar = <<>> THEN <<>>
    ELSE DictSet(dict_from_cookiejar(SubSeq(jar, 1, Len(jar) - 1)),
                 jar[Len(jar)][1], StrValue(jar[Len(jar)][2]))

-----------------------------------------------------------------------------
(* What the proxy service can answer: a status, the raw bytes of the body  *)
(* and what scrapeops_response.json() makes of them                        *)

JObject(pairs) == [t |-> "object", pairs |-> pairs, items |-> <<>>, s |-> <<>>]
JArray(items)  == [t |-> "array", pairs |-> <<>>, items |-> items, s |-> <<>>]
JString(s)     == [t |-> "string", pairs |-> <<>>, items |-> <<>>, s |-> s]
JNumber        == [t |-> "number", pairs |-> <<>>, items |-> <<>>, s |-> <<>>]
JNull          == [t |-> "null", pairs |-> <<>>, items |-> <<>>, s |-> <<>>]
\* not JSON: .json() raises JSONDecodeError
NotJson        == [t |-> "invalid", pairs |-> <<>>, items |-> <<>>, s |-> <<>>]

Html == <<104,116,109,108>>     \* the str 'html'

Body(content, json) == [content |-> content, json |-> json]

Bodies ==
    { \* {"html":"A"}
      Body(<<123,34,104,116,109,108,34,58,34,65,34,125>>,
           JObject(<< <<Html, JString(<<65>>)>> >>)),
      \* {"html":"e-acute"}, the character as UTF-8 in the body
      Body(<<123,34,104,116,109,108,34,58,34,195,169,34,125>>,
           JObject(<< <<Html, JString(<<233>>)>> >>)),
      \* {"html":"\u00e9"}, the character escaped in the body
      Body(<<123,34,104,116,109,108,34,58,34,92,117,48,48,101,57,34,125>>,
           JObject(<< <<Html, JString(<<233>>)>> >>)),
      \* {"html":"\ud800"}, a lone surrogate
      Body(<<123,34,104,116,109,108,34,58,34,92,117,100,56,48,48,34,125>>,
           JObject(<< <<Html, JString(<<55296>>)>> >>)),
      \* {"html":null}
      Body(<<123,34,104,116,109,108,34,58,110,117,108,108,125>>,
           JObject(<< <<Html, JNull>> >>)),
      \* {"a":1}
      Body(<<123,34,97,34,58,49,125>>, JObject(<< <<<<97>>, JNumber>> >>)),
      \* 1
      Body(<<49>>, JNumber),
      \* null
      Body(<<110,117,108,108>>, JNull),
      \* "a"
      Body(<<34,97,34>>, JString(<<97>>)),
      \* "html"
      Body(<<34,104,116,109,108,34>>, JString(Html)),
      \* ["html"]
      Body(<<91,34,104,116,109,108,34,93>>, JArray(<<JString(Html)>>)),
      \* []
      Body(<<91,93>>, JArray(<<>>)),
      \* <p>
      Body(<<60,112,62>>, NotJson),
      \* the empty body
      Body(<<>>, NotJson) }

Statuses == {200, 404}

\* the outcome of requests.get(proxy endpoint): it raises, or a response
Raises(e) ==
    [raises |-> TRUE, exception |-> e, status_code |-> 0, content |-> <<>>, json |-> NotJson]

Answers(status, body) ==
    [raises |-> FALSE, exception |-> None, status_code |-> status,
     content |-> body.content, json |-> body.json]

\* the bodies of the error pages the proxy service answers with
ErrorBodies == {Body(<<60,112,62>>, NotJson), Body(<<123,34,97,34,58,49,125>>, JObject(<< <<<<97>>, JNumber>> >>))}

Outbound ==
    {Raises(e) : e \in NetworkErrors}
    \cup {Answers(StatusOk, b) : b \in Bodies}
    \cup {Answers(st, b) : st \in Statuses \ {StatusOk}, b \in ErrorBodies}

-----------------------------------------------------------------------------
(* Python on the parsed data: `'html' in data`, `data['html']`, `.encode` *)

Ok(v) == [raised |-> FALSE, exception |-> None, v |-> v]

Raise(e) == [raised |-> TRUE, exception |-> e, v |-> <<>>]

\* 'html' in scrapeops_data
HtmlIn(data) ==
    CASE data.t = "object" -> Ok(Html \in DictKeys(data.pairs))
      [] data.t = "array"  -> Ok(JString(Html) \in Range(data.items))
      [] data.t = "string" -> Ok(Contains(data.s, Html))
      [] OTHER             -> Raise(NotIterable(data.t))

\* scrapeops_data['html']
HtmlOf(data) ==
    IF data.t = "object" THEN Ok(DictGet(data.pairs, Html))
    ELSE Raise(BadIndex(data.t))

\* value.encode('utf-8')
Encode(value) ==
    IF value.t # "string" THEN Raise(NoEncode(value.t))
    ELSE IF ~CanEncode(value.s) THEN Raise(SurrogateError)
    ELSE Ok(Utf8Encode(value.s))

-----------------------------------------------------------------------------
(* ScrapeOpsClient.get, step by step *)

\* is_youtube = 'youtube.com' in url or 'youtu.be' in url
is_youtube(url) ==
    \/ Contains(url, <<"y","o","u","t","u","b","e",".","c","o","m">>)
    \/ Contains(url, <<"y","o","u","t","u",".","b","e">>)

\* '&'.join(f"{k}={v}" for k, v in params.items())
param_str(params) ==
    Join(<<"&">>,
         [i \in 1..Len(params.items) |->
             params.items[i][1] \o <<"=">> \o params.items[i][2]])

\* proxy_params['url']: the target URL with params merged into its query string
target_url(url, params) ==
    IF Truthy(params)
    THEN IF "?" \in Range(url)
         THEN url \o <<"&">> \o param_str(params)
         ELSE url \o <<"?">> \o param_str(params)
    ELSE url

\* self.headers after the backfill of the default headers
backfill(hdrs, url) ==
    IF hdrs = <<>> THEN hdrs
    ELSE LET h1 == IF is_youtube(url) /\ "User-Agent" \notin DictKeys(hdrs)
                   THEN DictSet(hdrs, "User-Agent", UserAgentDefault)
                   ELSE hdrs
         IN  IF is_youtube(url) /\ "Accept-Language" \notin DictKeys(h1)
             THEN DictSet(h1, "Accept-Language", AcceptLanguageDefault)
             ELSE h1

\* the platform parameters added for a YouTube target
youtube_params(pp, url) ==
    IF is_youtube(url)
    THEN DictSet(DictSet(pp, "premium", "true"), "browser_type", "chrome")
    ELSE pp

\* the headers parameter; hdrs is the header map after the backfill
headers_param(pp, hdrs) ==
    IF hdrs # <<>> THEN DictSet(pp, "headers", JsonDumps(hdrs)) ELSE pp

\* the cookies parameter
cookies_param(pp, jar) ==
    IF Len(jar) > 0
    THEN DictSet(pp, "cookies", JsonDumps(dict_from_cookiejar(jar)))
    ELSE pp

\* the parameters of the outbound call
proxy_params(key, url, params, hdrs, jar) ==
    LET base == << <<"api_key", key>>,
                   <<"url", target_url(url, params)>>,
                   <<"optimize_request", "true">>,
                   <<"render_js", "false">>,
                   <<"keep_headers", "true">>,
                   <<"country", "us">> >>
    IN  cookies_param(headers_param(youtube_params(base, url), hdrs), jar)

\* requests.Request(method='GET', url=url).prepare(): PreparedRequest.prepare_url
RECURSIVE TakeUntil(_, _)
TakeUntil(s, stops) ==
    IF s = <<>> \/ Head(s) \in stops THEN <<>>
    ELSE <<Head(s)>> \o TakeUntil(Tail(s), stops)

UrlHost(url) ==
    LET colon == IndexFrom(url, ":", 1)
    IN  IF colon = 0 \/ SubSeq(url, colon + 1, colon + 2) # <<"/", "/">> THEN <<>>
        ELSE TakeUntil(SubSeq(url, colon + 3, Len(url)), {"/", "?", "#"})

prepare(url) ==
    IF ":" \in Range(url) /\ ~StartsWith(url, <<"h","t","t","p">>)
    THEN Ok([method |-> "GET", url |-> url])
    ELSE IF ":" \notin Range(url) THEN Raise(MissingSchema(url))
    ELSE IF UrlHost(url) = <<>> THEN Raise(InvalidURL(url))
    ELSE Ok([method |-> "GET", url |-> url])

\* a plausible slip: the answer's body is used as it came, the html field is
\* not unwrapped
keep_raw(out) == Ok([status_code |-> StatusOk, content |-> out.content])

\* the proxy service answered 200: the html field of the parsed body, or the
\* raw bytes when the body is not JSON or has no such field
unwrap_html(out) ==
    IF out.json.t = "invalid"
    THEN Ok([status_code |-> StatusOk, content |-> out.content])
    ELSE LET has == HtmlIn(out.json)
             val == HtmlOf(out.json)
             enc == Encode(val.v)
         IN  IF has.raised THEN has
             ELSE IF ~has.v
             THEN Ok([status_code |-> StatusOk, content |-> out.content])
             ELSE IF val.raised THEN val
             ELSE IF enc.raised THEN enc
             ELSE Ok([status_code |-> StatusOk, content |-> enc.v])

\* a plausible slip: an error of the proxy service is reported as status 500
substitute_500(out) == Ok([status_code |-> StatusError, content |-> out.content])

\* the proxy service answered with another status: status and body as they came
pass_through(out) == Ok([status_code |-> out.status_code, content |-> out.content])

\* status and body of the reconstructed response, from the proxy service's answer
reconstruct(out) ==
    IF out.status_code = StatusOk THEN unwrap_html(out) ELSE pass_through(out)

\* a plausible slip: the URL that was sent to the proxy service, params merged
merged_url(url, params) == target_url(url, params)

\* response.url / error_response.url
effective_url(url, params) == url

\* response.encoding on the path that returns the reconstructed response
success_encoding == "utf-8"

\* error_response.encoding: requests.Response() leaves it None and the handler
\* does not set it
error_encoding == None

\* the body of the try statement: the outbound call up to `return response`
try_block(url, params, out) ==
    LET rec == reconstruct(out)
        req == prepare(url)
    IN  IF out.raises THEN Raise(out.exception)
        ELSE IF rec.raised THEN rec
        ELSE IF req.raised THEN req
        ELSE Ok([status_code |-> rec.v.status_code,
                 content |-> rec.v.content,
                 url |-> effective_url(url, params),
                 request |-> req.v,
                 encoding |-> success_encoding])

\* the handler `except Exception as e`
except_block(url, params, e) ==
    LET req == prepare(url)
    IN  IF req.raised THEN req
        ELSE Ok([status_code |-> StatusError,
                 content |-> Utf8Encode(e.text),
                 url |-> effective_url(url, params),
                 request |-> req.v,
                 encoding |-> error_encoding])

\* get(url, params) on a shim holding hdrs and jar, when the outbound call,
\* if it is made, has the outcome out: what the call returns or raises, the
\* header map it leaves and the parameters it sent
get(key, hdrs, jar, url, params, out) ==
    LET hdrs1 == backfill(hdrs, url)
        tried == try_block(url, params, out)
        handled == except_block(url, params, tried.exception)
        done(outcome, resp, exc, sent) ==
            [outcome |-> outcome, response |-> resp, exception |-> exc,
             headers |-> hdrs1, sent |-> sent]
        pp == proxy_params(key, url, params, hdrs1, jar)
    IN  IF ~Serializable(hdrs1)
        THEN done("raised", None, NotSerializable, <<>>)
        ELSE IF ~tried.raised THEN done("returned", tried.v, None, <<pp>>)
        ELSE IF ~handled.raised THEN done("returned", handled.v, None, <<pp>>)
        ELSE done("raised", None, handled.exception, <<pp>>)

-----------------------------------------------------------------------------
(* The shim as a state machine: construction, its callers' updates of the  *)
(* header map and the cookie jar, and get()                                *)

ApiKeys == {"KEY"}

HeaderValuesOf(name) ==
    CASE name = "User-Agent"      -> {StrValue("curl/8")}
      [] name = "Accept-Language" -> {StrValue("de")}
      [] OTHER                    -> {StrValue("tok"), BytesValue("tok")}

NoCall ==
    [outcome |-> "none", url |-> <<>>, params |-> NoParams, out |-> None,
     before |-> <<>>, response |-> None, exception |-> None, sent |-> <<>>]

CliUnused == [pc |-> "unused"]

\* ScrapeOpsClient.__init__
InitShim ==
    /\ api_key \in ApiKeys
    /\ timeout = DefaultTimeout
    /\ headers = <<>>
    /\ cookies = <<>>
    /\ proxies = <<>>
    /\ last = NoCall
    /\ cli = CliUnused

\* a caller sets a header: client.headers[name] = value
HeadersUpdate(name, value) ==
    /\ headers' = DictSet(headers, name, value)
    /\ last' = NoCall
    /\ UNCHANGED <<api_key, timeout, cookies, proxies, cli>>

\* a caller sets a cookie: client.cookies.set(name, value)
CookiesSet(name, value) ==
    /\ cookies' = DictSet(cookies, name, value)
    /\ last' = NoCall
    /\ UNCHANGED <<api_key, timeout, headers, proxies, cli>>

\* one call of get(url, params); `last` records it
Get(url, params, out) ==
    /\ LET r == get(api_key, headers, cookies, url, params, out)
       IN  /\ headers' = r.headers
           /\ last' = [outcome |-> r.outcome, url |-> url, params |-> params,
                       out |-> out, before |-> headers,
                       response |-> r.response, exception |-> r.exception,
                       sent |-> r.sent]
    /\ UNCHANGED <<api_key, timeout, cookies, proxies, cli>>

\* Response reconstruction: every answer of the proxy service, for a platform
\* URL, another URL and a URL without a scheme, with a caller header that
\* json.dumps can or cannot serialize
ReconstructUrls == {UrlWatch, UrlOther, UrlNoScheme}

ReconstructParams == {p \in ParamsValues : p = NoParams \/ Truthy(p)}

Next ==
    \/ \E value \in HeaderValuesOf("X-Token") : HeadersUpdate("X-Token", value)
    \/ \E url \in ReconstructUrls : \E params \in ReconstructParams : \E out \in Outbound :
          Get(url, params, out)

Spec == InitShim /\ [][Next]_vars

-----------------------------------------------------------------------------
(* Claims about get().  `last` holds the latest call: its arguments, the   *)
(* header map before it, the outcome of the outbound call and what get()   *)
(* returned or raised.                                                     *)

Called == last.outcome # "none"

Returned == last.outcome = "returned"

\* the outbound call was made and the proxy service answered it
Answered == Called /\ last.sent # <<>> /\ ~last.out.raises

\* the proxy service answered 200 with a JSON object that has an `html` field
AnsweredHtml ==
    /\ Answered
    /\ last.out.status_code = StatusOk
    /\ last.out.json.t = "object"
    /\ Html \in DictKeys(last.out.json.pairs)

HtmlField == DictGet(last.out.json.pairs, Html)

\* the body has no `html` field: it is not JSON, or JSON of any shape without it
LacksHtml ==
    \/ last.out.json.t # "object"
    \/ Html \notin DictKeys(last.out.json.pairs)

\* the exception some step of the call raised, if one did
StepRaised ==
    \/ ~Serializable(backfill(last.before, last.url))
    \/ try_block(last.url, last.params, last.out).raised

StepException ==
    IF ~Serializable(backfill(last.before, last.url)) THEN NotSerializable
    ELSE try_block(last.url, last.params, last.out).exception

\* C1 (as claimed): get() is total: every call returns a response and none
\* raises, and when a step of the call raised an exception the response has
\* status 500, the exception's text as body and the original URL.
C1_GetNeverRaises ==
    Called =>
        /\ Returned
        /\ StepRaised =>
              /\ last.response.status_code = StatusError
              /\ last.response.content = Utf8Encode(StepException.text)
              /\ last.response.url = last.url

C3_NoHtmlKeepsRawBytes ==
    (Answered /\ last.out.status_code = StatusOk /\ LacksHtml) =>
        /\ Returned
        /\ last.response.status_code = StatusOk
        /\ last.response.content = last.out.content

C5_EffectiveUrlIsOriginal ==
    Returned => last.response.url = last.url

\* C5 witness: a synthesized failure response of a call with params, whose
\* outbound call carried a url parameter different from the original URL
C5_Witness ==
    /\ Returned
    /\ last.out.raises
    /\ Truthy(last.params)
    /\ last.response.status_code = StatusError
    /\ DictGet(last.sent[1], "url") # last.url
    /\ last.response.url = last.url

\* C6 (as claimed): every response get() returns has its encoding set to
\* UTF-8, the synthesized status-500 response included.
C6_EncodingAlwaysUtf8 ==
    Returned => last.response.encoding = "utf-8"

-----------------------------------------------------------------------------
(* YouTubeTranscriptCli: the command line                                  *)

\* video ids as given on the command line: a and \b
VideoIdValues == { <<"a">>, <<"\\", "b">> }

RECURSIVE SeqsUpTo(_, _)
SeqsUpTo(S, n) ==
    IF n = 0 THEN {<<>>}
    ELSE LET shorter == SeqsUpTo(S, n - 1)
         IN  shorter \cup {Append(s, x) : s \in {t \in shorter : Len(t) = n - 1}, x \in S}

\* one command line: the options that were given; None is an option left out
CommandLine(ids, format, http, https, user, pass, cookie, key, list, exg, exm, translate) ==
    [video_ids |-> ids, format |-> format, http_proxy |-> http, https_proxy |-> https,
     webshare_proxy_username |-> user, webshare_proxy_password |-> pass,
     cookies |-> cookie, scrapeops_api_key |-> key, list_transcripts |-> list,
     exclude_generated |-> exg, exclude_manually_created |-> exm,
     translate |-> translate]

\* command lines that vary the identifiers and the selection options
BatchCommandLines ==
    { CommandLine(ids, None, None, None, None, None, None, None, list, exg, exm, tr) :
        ids \in SeqsUpTo(VideoIdValues, MaxVideoIds),
        list \in BOOLEAN, exg \in BOOLEAN, exm \in BOOLEAN, tr \in {None, "de"} }

\* command lines that vary the proxy options, the cookie path and the key
ProxyCommandLines ==
    { CommandLine(<< <<"a">> >>, None, http, https, user, pass, cookie, key,
                  FALSE, FALSE, FALSE, None) :
        http \in {None, "", "http://p"}, https \in {None, "https://p"},
        user \in {None, "", "user"}, pass \in {None, "", "secret"},
        cookie \in {None, "cookies.txt"}, key \in {None, "KEY"} }

\* command lines that name an output format
FormatCommandLines ==
    { CommandLine(<< <<"a">> >>, format, None, None, None, None, None, None,
                  list, both, both, None) :
        format \in {"json", "pretty", "plain"}, list \in BOOLEAN, both \in BOOLEAN }

\* command lines that give --translate an empty value
TranslateCommandLines ==
    { CommandLine(<< <<"a">> >>, None, None, None, None, None, None, None,
                  list, FALSE, FALSE, "") : list \in BOOLEAN }

CommandLines ==
    BatchCommandLines \cup ProxyCommandLines \cup FormatCommandLines
    \cup TranslateCommandLines

\* _build_available_formats: the choices of --format
_build_available_formats == {}

\* the value of an option: what was given, else the default of add_argument
OptionOr(given, default) == IF given = None THEN default ELSE given

\* video_id.replace("\\", "")
StripBackslashes(id) == SelectSeq(id, LAMBDA c : c # "\\")

\* _sanitize_video_ids
_sanitize_video_ids(ids) == [k \in 1..Len(ids) |-> StripBackslashes(ids[k])]

\* parser.parse_args rejects a --format value that is not among the choices:
\* parser.error, SystemExit(2)
ParseFails(cmd) ==
    cmd.format # None /\ cmd.format \notin _build_available_formats

\* _parse_args: the namespace, with the defaults of the options left out
_parse_args(cmd) ==
    [video_ids |-> _sanitize_video_ids(cmd.video_ids),
     format |-> OptionOr(cmd.format, "plain"),
     languages |-> <<"en">>,
     http_proxy |-> OptionOr(cmd.http_proxy, ""),
     https_proxy |-> OptionOr(cmd.https_proxy, ""),
     webshare_proxy_username |-> cmd.webshare_proxy_username,
     webshare_proxy_password |-> cmd.webshare_proxy_password,
     cookies |-> cmd.cookies,
     scrapeops_api_key |-> cmd.scrapeops_api_key,
     list_transcripts |-> cmd.list_transcripts,
     exclude_generated |-> cmd.exclude_generated,
     exclude_manually_created |-> cmd.exclude_manually_created,
     translate |-> OptionOr(cmd.translate, "")]

-----------------------------------------------------------------------------
(* run(): the short circuit and the proxy configuration *)

\* both exclude flags are set: run() returns "" at once
short_circuit(args) == args.exclude_manually_created /\ args.exclude_generated

NoProxyConfig ==
    [type |-> None, http_url |-> None, https_url |-> None,
     proxy_username |-> None, proxy_password |-> None]

GenericProxyConfig(http_url, https_url) ==
    [type |-> "GenericProxyConfig", http_url |-> http_url, https_url |-> https_url,
     proxy_username |-> None, proxy_password |-> None]

WebshareProxyConfig(proxy_username, proxy_password) ==
    [type |-> "WebshareProxyConfig", http_url |-> None, https_url |-> None,
     proxy_username |-> proxy_username, proxy_password |-> proxy_password]

\* a plausible slip: the two ifs in the other order, generic URLs win
generic_wins(args) ==
    LET c0 == NoProxyConfig
        c1 == IF \/ args.webshare_proxy_username # None
                 \/ args.webshare_proxy_password # None
              THEN WebshareProxyConfig(args.webshare_proxy_username,
                                       args.webshare_proxy_password)
              ELSE c0
    IN  IF args.http_proxy # "" \/ args.https_proxy # ""
        THEN GenericProxyConfig(args.http_proxy, args.https_proxy)
        ELSE c1

\* proxy_config: None, then the generic configuration if a proxy URL is not
\* empty, then the Webshare configuration if a credential is not None
proxy_config(args) ==
    LET c0 == NoProxyConfig
        c1 == IF args.http_proxy # "" \/ args.https_proxy # ""
              THEN GenericProxyConfig(args.http_proxy, args.https_proxy)
              ELSE c0
    IN  IF \/ args.webshare_proxy_username # None
           \/ args.webshare_proxy_password # None
        THEN WebshareProxyConfig(args.webshare_proxy_username,
                                 args.webshare_proxy_password)
        ELSE c1

\* YouTubeTranscriptApi(proxy_config=, cookie_path=, scrapeops_api_key=)
YouTubeTranscriptApi(config, cookie_path, key) ==
    [proxy_config |-> config, cookie_path |-> cookie_path, scrapeops_api_key |-> key]

-----------------------------------------------------------------------------
(* run(): the loop over the video ids.  The engine (ytt_api.list, the      *)
(* find_* lookups, translate, fetch) is outside this code: each of its     *)
(* calls succeeds or raises, as the outcome of the iteration says.         *)

\* an exception an engine call raised; video_id is the id the engine's own
\* errors carry, None for an exception that is not one of them
EngineError(type, video_id) == [type |-> type, video_id |-> video_id]

AllSucceed == [fails |-> None, type |-> None, carries_id |-> FALSE]

Fails(op, type, carries_id) == [fails |-> op, type |-> type, carries_id |-> carries_id]

Outcomes ==
    { AllSucceed,
      Fails("list", "TranscriptsDisabled", TRUE),
      Fails("list", "ConnectionError", FALSE),
      Fails("find", "NoTranscriptFound", TRUE),
      Fails("translate", "NotTranslatable", TRUE),
      Fails("fetch", "ConnectionError", FALSE) }

\* _fetch_transcript: the lookup the exclude flags select
find_method(args) ==
    IF args.exclude_manually_created THEN "find_generated_transcript"
    ELSE IF args.exclude_generated THEN "find_manually_created_transcript"
    ELSE "find_transcript"

\* a plausible slip: the transcript is fetched before it is translated
fetch_before_translate(args) ==
    IF args.list_transcripts THEN <<"list">>
    ELSE <<"list", "find", "fetch">>
         \o (IF args.translate # "" THEN <<"translate">> ELSE <<>>)

\* the engine calls of one iteration, in the order the code makes them
planned_calls(args) ==
    IF args.list_transcripts THEN <<"list">>
    ELSE <<"list", "find">>
         \o (IF args.translate # "" THEN <<"translate">> ELSE <<>>)
         \o <<"fetch">>

\* the calls made when the iteration has the outcome o: up to the one that raises
RECURSIVE UpTo(_, _)
UpTo(ops, op) ==
    IF ops = <<>> THEN <<>>
    ELSE IF Head(ops) = op THEN <<op>>
    ELSE <<Head(ops)>> \o UpTo(Tail(ops), op)

\* the outcome o can happen under args: the call it fails is one run() makes
Applicable(args, o) == o.fails = None \/ o.fails \in Range(planned_calls(args))

CallName(args, op) == IF op = "find" THEN find_method(args) ELSE op

\* what the iteration appends to transcripts: the TranscriptList in list
\* mode, else the FetchedTranscript
appended_transcript(args, video_id, slot) ==
    IF args.list_transcripts
    THEN [kind |-> "TranscriptList", video_id |-> video_id, slot |-> slot,
          found_by |-> None, translated |-> ""]
    ELSE [kind |-> "FetchedTranscript", video_id |-> video_id, slot |-> slot,
          found_by |-> find_method(args), translated |-> args.translate]

\* a plausible slip: the exception of one id ends the loop
abort_on_failure(c, o) ==
    LET video_id == c.args.video_ids[c.i]
        made == UpTo(planned_calls(c.args), o.fails)
        log == [k \in 1..Len(made) |-> <<CallName(c.args, made[k]), video_id>>]
    IN  IF o.fails = None
        THEN [c EXCEPT !.i = c.i + 1, !.calls = c.calls \o log,
                       !.transcripts =
                           Append(c.transcripts,
                                  appended_transcript(c.args, video_id, c.i))]
        ELSE [c EXCEPT !.i = Len(c.args.video_ids) + 1, !.calls = c.calls \o log,
                       !.exceptions =
                           Append(c.exceptions,
                                  [error |-> EngineError(o.type,
                                       IF o.carries_id THEN video_id ELSE None),
                                   slot |-> c.i])]

\* one iteration of `for video_id in parsed_args.video_ids`, with its try/except
iteration(c, o) ==
    LET video_id == c.args.video_ids[c.i]
        made == UpTo(planned_calls(c.args), o.fails)
        log == [k \in 1..Len(made) |-> <<CallName(c.args, made[k]), video_id>>]
    IN  IF o.fails = None
        THEN [c EXCEPT !.i = c.i + 1, !.calls = c.calls \o log,
                       !.transcripts =
                           Append(c.transcripts,
                                  appended_transcript(c.args, video_id, c.i))]
        ELSE [c EXCEPT !.i = c.i + 1, !.calls = c.calls \o log,
                       !.exceptions =
                           Append(c.exceptions,
                                  [error |-> EngineError(o.type,
                                       IF o.carries_id THEN video_id ELSE None),
                                   slot |-> c.i])]

-----------------------------------------------------------------------------
(* run(): the text it returns *)

\* str(exception): the engine's own errors name the video, others do not
str_exception(e) ==
    IF e.video_id = None THEN <<e.type>>
    ELSE <<e.type, ": ">> \o e.video_id

\* str(transcript_list)
str_transcript_list(t) == <<"TranscriptList ">> \o t.video_id

\* FormatterLoader().load(format).format_transcripts(transcripts): one text
\* for all the fetched transcripts
format_transcripts(format, transcripts) ==
    <<format, "[">>
    \o Join(<<", ">>,
            [k \in 1..Len(transcripts) |->
                transcripts[k].video_id
                \o <<" ", transcripts[k].found_by, " ", transcripts[k].translated>>])
    \o <<"]">>

\* the sections the transcripts add to the output
transcript_sections(args, transcripts) ==
    IF transcripts = <<>> THEN <<>>
    ELSE IF args.list_transcripts
    THEN [k \in 1..Len(transcripts) |-> str_transcript_list(transcripts[k])]
    ELSE <<format_transcripts(args.format, transcripts)>>

\* a plausible slip: the transcripts before the errors
transcripts_first(args, transcripts, exceptions) ==
    transcript_sections(args, transcripts)
    \o [k \in 1..Len(exceptions) |-> str_exception(exceptions[k].error)]

\* print_sections: the text of every exception, then the transcripts
print_sections(args, transcripts, exceptions) ==
    [k \in 1..Len(exceptions) |-> str_exception(exceptions[k].error)]
    \o transcript_sections(args, transcripts)

\* "\n\n".join(print_sections)
joined(sections) == Join(<<"\n\n">>, sections)

-----------------------------------------------------------------------------
(* run() as a state machine: the start (parsing, the short circuit, the    *)
(* proxy configuration), one step per iteration of the loop, the output    *)

CliStart ==
    [pc |-> "start", cmd |-> None, args |-> None, proxy_config |-> NoProxyConfig,
     ytt_api |-> None, i |-> 0, transcripts |-> <<>>, exceptions |-> <<>>,
     calls |-> <<>>, outcome |-> None, result |-> None]

InitCli ==
    /\ api_key \in ApiKeys
    /\ timeout = DefaultTimeout
    /\ headers = <<>>
    /\ cookies = <<>>
    /\ proxies = <<>>
    /\ last = NoCall
    /\ cli = CliStart

\* a plausible slip: the check of the exclude flags is missing
never_short_circuits(cmd) ==
    LET args == _parse_args(cmd)
        config == proxy_config(args)
    IN  IF ParseFails(cmd)
        THEN [CliStart EXCEPT !.pc = "done", !.cmd = cmd, !.outcome = "SystemExit"]
        ELSE [CliStart EXCEPT !.pc = "loop", !.cmd = cmd, !.args = args, !.i = 1,
                  !.proxy_config = config,
                  !.ytt_api = YouTubeTranscriptApi(config, args.cookies,
                                                   args.scrapeops_api_key)]

\* run() up to the loop
begin(cmd) ==
    LET args == _parse_args(cmd)
        config == proxy_config(args)
    IN  IF ParseFails(cmd)
        THEN [CliStart EXCEPT !.pc = "done", !.cmd = cmd, !.outcome = "SystemExit"]
        ELSE IF short_circuit(args)
        THEN [CliStart EXCEPT !.pc = "done", !.cmd = cmd, !.args = args,
                  !.outcome = "returned", !.result = <<>>]
        ELSE [CliStart EXCEPT !.pc = "loop", !.cmd = cmd, !.args = args, !.i = 1,
                  !.proxy_config = config,
                  !.ytt_api = YouTubeTranscriptApi(config, args.cookies,
                                                   args.scrapeops_api_key)]

Start(cmd) ==
    /\ cli.pc = "start"
    /\ cli' = begin(cmd)
    /\ UNCHANGED <<api_key, timeout, headers, cookies, proxies, last>>

Iterate(o) ==
    /\ cli.pc = "loop"
    /\ cli.i <= Len(cli.args.video_ids)
    /\ Applicable(cli.args, o)
    /\ cli' = iteration(cli, o)
    /\ UNCHANGED <<api_key, timeout, headers, cookies, proxies, last>>

Finish ==
    /\ cli.pc = "loop"
    /\ cli.i > Len(cli.args.video_ids)
    /\ cli' = [cli EXCEPT !.pc = "done", !.outcome = "returned",
                  !.result = joined(print_sections(cli.args, cli.transcripts,
                                                   cli.exceptions))]
    /\ UNCHANGED <<api_key, timeout, headers, cookies, proxies, last>>

NextCli ==
    \/ \E cmd \in CommandLines : Start(cmd)
    \/ \E o \in Outcomes : Iterate(o)
    \/ Finish

SpecCli == InitCli /\ [][NextCli]_vars

-----------------------------------------------------------------------------
(* Claims about run().  The entries of transcripts and exceptions carry    *)
(* `slot`, the position in video_ids of the iteration that appended them;  *)
(* cli.calls is the log of the engine calls, each with its video id.       *)

\* run() got past the argument parser
Parsed == cli.pc # "start" /\ cli.outcome # "SystemExit"

\* run() entered the loop: it is in it, or has returned after it
LoopEntered == Parsed /\ ~short_circuit(cli.args)

LoopDone == LoopEntered /\ cli.pc = "done"

Slots(entries) == [k \in 1..Len(entries) |-> entries[k].slot]

Increasing(s) == \A k \in 1..(Len(s) - 1) : s[k] < s[k + 1]

ListCalls == SelectSeq(cli.calls, LAMBDA call : call[1] = "list")

\* C7: the loop attempts every identifier once, in input order, whatever
\* failed before; successes plus errors count the identifiers processed, each
\* collection in input order; and run() returns normally after the last
\* identifier, also when every identifier failed.
C7_EveryIdentifierProcessed ==
    LoopEntered =>
        /\ Len(cli.transcripts) + Len(cli.exceptions) = cli.i - 1
        /\ Range(Slots(cli.transcripts)) \cup Range(Slots(cli.exceptions))
              = 1..(cli.i - 1)
        /\ Increasing(Slots(cli.transcripts))
        /\ Increasing(Slots(cli.exceptions))
        /\ \A k \in 1..Len(cli.transcripts) :
              cli.transcripts[k].video_id
                 = cli.args.video_ids[cli.transcripts[k].slot]
        /\ ListCalls = [k \in 1..(cli.i - 1) |-> <<"list", cli.args.video_ids[k]>>]
        /\ cli.pc = "done" =>
              /\ cli.i - 1 = Len(cli.args.video_ids)
              /\ cli.outcome = "returned"

\* C7 witness: run() returned after a loop in which every identifier failed
C7_Witness ==
    /\ LoopDone
    /\ cli.outcome = "returned"
    /\ Len(cli.args.video_ids) >= 2
    /\ Len(cli.exceptions) = Len(cli.args.video_ids)
    /\ cli.transcripts = <<>>

ErrorTexts == [k \in 1..Len(cli.exceptions) |-> str_exception(cli.exceptions[k].error)]

ListingTexts == [k \in 1..Len(cli.transcripts) |-> str_transcript_list(cli.transcripts[k])]

\* C8: the text run() returns is, joined by a blank line, the text of every
\* captured error in capture order, then the text of every listing (list
\* mode) or one formatter output over all fetched transcripts (fetch mode,
\* when there is one); with one error and one fetched transcript it is the
\* error text, a blank line and the formatted transcript.
C8_ErrorsThenTranscripts ==
    (cli.pc = "done" /\ cli.outcome = "returned") =>
        /\ cli.result =
              Join(<<"\n\n">>,
                   ErrorTexts
                   \o (IF cli.args.list_transcripts THEN ListingTexts
                       ELSE IF cli.transcripts # <<>>
                       THEN <<format_transcripts(cli.args.format, cli.transcripts)>>
                       ELSE <<>>))
        /\ (/\ ~cli.args.list_transcripts
            /\ Len(cli.exceptions) = 1
            /\ Len(cli.transcripts) = 1) =>
              cli.result = str_exception(cli.exceptions[1].error)
                           \o <<"\n\n">>
                           \o format_transcripts(cli.args.format, cli.transcripts)

\* C8 witness: identifiers [a, b] in fetch mode, a fetched and b failed: the
\* error text of b comes first
C8_Witness ==
    /\ LoopDone
    /\ ~cli.args.list_transcripts
    /\ Len(cli.args.video_ids) = 2
    /\ Slots(cli.transcripts) = <<1>>
    /\ Slots(cli.exceptions) = <<2>>
    /\ cli.result = <<"NoTranscriptFound", ": ", "b", "\n\n",
                      "plain", "[", "a", " ", "find_transcript", " ", "", "]">>

\* C9: when both exclude flags are set, run() returns the empty text at once,
\* whatever the identifiers and the other options: no engine call is made for
\* any identifier.
C9_BothExcludedReturnsEmpty ==
    (Parsed /\ cli.cmd.exclude_generated /\ cli.cmd.exclude_manually_created) =>
        /\ cli.pc = "done"
        /\ cli.outcome = "returned"
        /\ cli.calls = <<>>
        /\ cli.result = <<>>

\* C9 witness: both flags, list mode, translation and two identifiers
C9_Witness ==
    /\ Parsed
    /\ cli.pc = "done"
    /\ cli.cmd.exclude_generated /\ cli.cmd.exclude_manually_created
    /\ cli.cmd.list_transcripts
    /\ cli.cmd.translate = "de"
    /\ Len(cli.cmd.video_ids) = 2
    /\ cli.result = <<>>

\* the resolver's answer is in cli.proxy_config once the loop is entered
Present(x) == x # None /\ x # ""

\* C10 (as claimed): Credentialed if the username or the password is present
\* (not absent, not empty), otherwise Generic if a proxy URL is not empty,
\* otherwise no proxy configuration.
C10_PresentCredentialSelects ==
    LoopEntered =>
        cli.proxy_config.type =
            IF \/ Present(cli.cmd.webshare_proxy_username)
               \/ Present(cli.cmd.webshare_proxy_password)
            THEN "WebshareProxyConfig"
            ELSE IF Present(cli.cmd.http_proxy) \/ Present(cli.cmd.https_proxy)
            THEN "GenericProxyConfig"
            ELSE None

\* C10 (amended): Credentialed if the username or the password option was
\* given, even with an empty value; otherwise Generic if the http or the
\* https proxy URL is not empty; otherwise no proxy configuration.  The
\* cookie path and the scraping-service key play no part, and the engine
\* client is built with the configuration chosen.
C10_GivenCredentialSelects ==
    LoopEntered =>
        /\ cli.proxy_config.type =
              IF \/ cli.cmd.webshare_proxy_username # None
                 \/ cli.cmd.webshare_proxy_password # None
              THEN "WebshareProxyConfig"
              ELSE IF Present(cli.cmd.http_proxy) \/ Present(cli.cmd.https_proxy)
              THEN "GenericProxyConfig"
              ELSE None
        /\ cli.ytt_api.proxy_config = cli.proxy_config
        /\ cli.ytt_api.cookie_path = cli.cmd.cookies
        /\ cli.ytt_api.scrapeops_api_key = cli.cmd.scrapeops_api_key

\* C10 witness: only the password given, next to a generic proxy URL, a
\* cookie path and a key: the Webshare configuration is chosen
C10_Witness ==
    /\ LoopEntered
    /\ cli.cmd.webshare_proxy_username = None
    /\ cli.cmd.webshare_proxy_password = "secret"
    /\ cli.cmd.http_proxy = "http://p"
    /\ cli.cmd.cookies = "cookies.txt"
    /\ cli.cmd.scrapeops_api_key = "KEY"
    /\ cli.proxy_config = WebshareProxyConfig(None, "secret")

-----------------------------------------------------------------------------
\* C11: every entry of the errors collection identifies the input identifier
\* whose processing failed: the error stored by iteration k carries
\* video_ids[k], whatever was raised.
C11_ErrorCarriesIdentifier ==
    LoopEntered =>
        \A k \in 1..Len(cli.exceptions) :
            /\ cli.exceptions[k].error.video_id # None
            /\ cli.exceptions[k].error.video_id
                  = cli.args.video_ids[cli.exceptions[k].slot]

\* C12: the formatter that renders the fetched transcripts is the one the
\* --format option names, for every available format name (json, pretty), and
\* the pretty-print formatter when --format is not given.
C12_FormatOptionSelectsFormatter ==
    cli.pc # "start" =>
        /\ cli.outcome # "SystemExit"
        /\ cli.args.format = OptionOr(cli.cmd.format, "pretty")

-----------------------------------------------------------------------------
(* The outbound parameters: the shim with its callers setting any header   *)
(* and the cookie, and get() for platform URLs, another site's URL and a   *)
(* URL of another site that mentions a platform domain in its query        *)

ParamsUrls == {UrlWatch, UrlShort, UrlOther, UrlMention}

ParamsParams == {p \in ParamsValues : p = NoParams \/ Truthy(p)}

\* the outbound call fails, or the proxy service answers 200 with a page
ParamsOutbound ==
    {out \in Outbound :
        \/ out.raises /\ out.exception.type = "ConnectionError"
        \/ ~out.raises /\ out.status_code = StatusOk /\ out.content = <<60, 112, 62>>}

NextParams ==
    \/ \E name \in HeaderNames : \E value \in HeaderValuesOf(name) :
          HeadersUpdate(name, value)
    \/ \E name \in CookieNames : \E value \in CookieValues : CookiesSet(name, value)
    \/ \E url \in ParamsUrls : \E params \in ParamsParams : \E out \in ParamsOutbound :
          Get(url, params, out)

SpecParams == InitShim /\ [][NextParams]_vars

\* the hosts of the platform: its main domain and its short-link domain
PlatformHosts ==
    { <<"w","w","w",".","y","o","u","t","u","b","e",".","c","o","m">>,
      <<"y","o","u","t","u","b","e",".","c","o","m">>,
      <<"y","o","u","t","u",".","b","e">> }

\* the names of the parameters the latest call sent to the proxy service
SentKeys == IF last.sent = <<>> THEN {} ELSE DictKeys(last.sent[1])

\* C13: premium and browser_type are among the parameters of the outbound
\* call if and only if the host of the target URL is a platform host; a URL of
\* another site that mentions a platform domain in its path or query does not
\* get them.
C13_PlatformParamsIffPlatformHost ==
    (Called /\ last.sent # <<>>) =>
        /\ "premium" \in SentKeys <=> UrlHost(last.url) \in PlatformHosts
        /\ "browser_type" \in SentKeys <=> UrlHost(last.url) \in PlatformHosts

\* the header names the latest call added to the shim's header map
AddedHeaders == DictKeys(headers) \ DictKeys(last.before)

\* C14: the headers parameter is sent if and only if the header map is not
\* empty at call time; a default is added only for a platform target, a
\* non-empty map and a header the caller has not set; no entry the caller set
\* is changed, and the serialized headers hold every entry of the map.
C14_HeadersSentAndBackfilled ==
    Called =>
        /\ "headers" \in SentKeys <=> last.before # <<>>
        /\ \A name \in AddedHeaders :
              /\ name \in {"User-Agent", "Accept-Language"}
              /\ UrlHost(last.url) \in PlatformHosts
              /\ last.before # <<>>
        /\ \A i \in 1..Len(last.before) : headers[i] = last.before[i]
        /\ "headers" \in SentKeys =>
              DictGet(last.sent[1], "headers") = JsonDumps(headers)

-----------------------------------------------------------------------------
\* the engine operations the claim names for one identifier, in its order
ClaimedOperations ==
    IF cli.args.list_transcripts THEN <<"list">>
    ELSE <<"list",
           IF cli.args.exclude_manually_created THEN "find_generated_transcript"
           ELSE IF cli.args.exclude_generated THEN "find_manually_created_transcript"
           ELSE "find_transcript">>
         \o (IF cli.cmd.translate \notin {None, ""} THEN <<"translate">> ELSE <<>>)
         \o <<"fetch">>

ListPositions == {p \in 1..Len(cli.calls) : cli.calls[p][1] = "list"}

\* the calls of the k-th identifier: from its list() to the next list()
BlockStart(k) ==
    CHOOSE p \in ListPositions : Cardinality({q \in ListPositions : q <= p}) = k

BlockEnd(k) ==
    IF k = Cardinality(ListPositions) THEN Len(cli.calls) ELSE BlockStart(k + 1) - 1

\* C15: the call log is one block per identifier, in input order; a block
\* holds calls for that identifier only and is list, the lookup the exclude
\* flags select, translate exactly when a non-empty target was given, then
\* fetch (list alone in list mode), cut short only at the call that failed.
C15_OperationsInOrderPerIdentifier ==
    LoopEntered =>
        /\ Cardinality(ListPositions) = cli.i - 1
        /\ cli.calls # <<>> => 1 \in ListPositions
        /\ \A k \in 1..(cli.i - 1) :
              LET block == SubSeq(cli.calls, BlockStart(k), BlockEnd(k))
              IN  /\ Len(block) <= Len(ClaimedOperations)
                  /\ \A j \in 1..Len(block) :
                        /\ block[j][1] = ClaimedOperations[j]
                        /\ block[j][2] = cli.args.video_ids[k]
                  /\ k \in Range(Slots(cli.transcripts)) =>
                        Len(block) = Len(ClaimedOperations)

\* C15 witness: two identifiers fetched with a translation and manually
\* created transcripts only
C15_Witness ==
    /\ LoopDone
    /\ cli.calls = << <<"list", <<"a">>>>,
                      <<"find_manually_created_transcript", <<"a">>>>,
                      <<"translate", <<"a">>>>,
                      <<"fetch", <<"a">>>>,
                      <<"list", <<"b">>>>,
                      <<"find_manually_created_transcript", <<"b">>>>,
                      <<"translate", <<"b">>>>,
                      <<"fetch", <<"b">>>> >>

-----------------------------------------------------------------------------
\* the header map holds a default that an earlier get() backfilled
Backfilled ==
    \/ \E i \in 1..Len(headers) : headers[i] = <<"User-Agent", UserAgentDefault>>
    \/ \E i \in 1..Len(headers) : headers[i] = <<"Accept-Language", AcceptLanguageDefault>>

\* C16: a get() step changes neither the cookie jar nor the api key nor the
\* timeout, keeps every existing header entry as it is, changes the header
\* map only for a platform URL and a non-empty map, and, when the map holds
\* backfilled defaults, sends the whole map in its headers parameter.
C16_GetKeepsShimState ==
    [][ last'.outcome # "none" =>
          /\ cookies' = cookies
          /\ api_key' = api_key
          /\ timeout' = timeout
          /\ proxies' = proxies
          /\ Len(headers') >= Len(headers)
          /\ \A i \in 1..Len(headers) : headers'[i] = headers[i]
          /\ headers' # headers =>
                (UrlHost(last'.url) \in PlatformHosts /\ headers # <<>>)
          /\ Backfilled =>
                /\ last'.sent # <<>>
                /\ "headers" \in DictKeys(last'.sent[1])
                /\ DictGet(last'.sent[1], "headers") = JsonDumps(headers')
      ]_vars

====
